---- MODULE Spec2Model ----
(***************************************************************************)
(* The synchronization engine (class Synchronizer): one Synchronizer       *)
(* instance, its start() coroutine cut at every await, cancel(), the lock  *)
(* auto-refresh callback and the Download Queue, against a local Item      *)
(* Store and a remote File API target.                                     *)
(***************************************************************************)
EXTENDS Integers, Sequences, FiniteSets, TLC

\* ------------------------------------------------------------------ bounds
NumIds == 2          \* item ids 1..NumIds
MaxEvents == 3       \* calls of start() and of cancel() and errors raised by
                     \* collaborators, together, in one behaviour

\* ------------------------------------------- parameters of collaborators
PageSize == 2        \* most items in one delta page
BatchSize == 2       \* most items in one itemsThatNeedSync batch
Concurrency == 1     \* Download Queue: most fetches in flight

Ids == 1..NumIds
NoCtx == 0           \* a null delta context (falsy in the code)

TYPE_NOTE == "note"
TYPE_MASTER_KEY == "master_key"
\* a file of the target that is not an item (.sync, .resource, the root)
NOT_AN_ITEM == "not_an_item"
TYPE_FOLDER == "folder"
TYPE_RESOURCE == "resource"
FETCH_STATUS_IDLE == "idle"
FETCH_STATUS_DONE == "done"

AllSteps == {"update_remote", "delete_remote", "delta"}

VARIABLES
    state_,               \* Synchronizer.state_
    cancelling_,          \* Synchronizer.cancelling_
    syncTargetIsLocked_,  \* Synchronizer.syncTargetIsLocked_
    downloadQueue_,       \* Synchronizer.downloadQueue_ (a TaskQueue or null)
    progressReport_,      \* Synchronizer.progressReport_ (counters by action)
    frame,                \* the locals of the call of start() and where it awaits
    itemType,             \* type_ of every item id
    localItems,           \* Item Store: items and their sync_items rows
    deletedItems,         \* Item Store: deleted_items of the target
    conflictNotes,        \* Item Store: number of notes in the Conflicts folder
    remoteFiles,          \* File API: the item files of the target
    supportsAccurateTimestamp, \* File API flag
    targetVersion,        \* Migration Handler: version of the target (0: new)
    lockHeld,             \* Lock Handler: this client's Sync lock is on the target
    autoRefresh,          \* Lock Handler: the auto-refresh timer runs
    exclusiveLock,        \* Lock Handler: an Exclusive lock is on the target
    appType_,             \* Synchronizer.appType_
    itemSize,             \* `size` of the content of every item id
    other,                \* another client of the target, uploading note 1
    persisted,            \* what saveContextHandler stored last (delta context)
    events,               \* dispatched SYNC_STARTED / SYNC_COMPLETED
    pollers,              \* cancel() promises polling for idle
    activeRuns,           \* calls of start() past the state check and not ended
    lastStart,            \* the last call of start(): state at the call, result
    lastEnd,              \* how the last run ended
    lastCancel,           \* the last cancel() that returned or resolved
    budget                \* calls and errors left to this behaviour

syncVars == <<state_, cancelling_, syncTargetIsLocked_, downloadQueue_, progressReport_>>
storeVars == <<itemType, localItems, deletedItems, conflictNotes>>
targetVars == <<remoteFiles, supportsAccurateTimestamp, targetVersion, exclusiveLock,
                appType_, itemSize, other>>
lockVars == <<lockHeld, autoRefresh>>
histVars == <<persisted, events, pollers, activeRuns, lastStart, lastEnd, lastCancel>>
budgetVars == <<budget>>
vars == <<syncVars, frame, storeVars, targetVars, lockVars, histVars, budgetVars>>

\* ----------------------------------------------------------------- helpers
Min(a, b) == IF a < b THEN a ELSE b

RECURSIVE SetToSeq(_)
SetToSeq(S) ==
    IF S = {} THEN <<>>
    ELSE LET x == CHOOSE y \in S : \A z \in S : y <= z
         IN <<x>> \o SetToSeq(S \ {x})

Prefix(s, n) == SubSeq(s, 1, Min(n, Len(s)))

SeqRange(s) == {s[k] : k \in 1..Len(s)}

ReportKeys ==
    {"starting", "cancelling", "createRemote", "updateRemote", "noteConflict",
     "resourceConflict", "itemConflict", "deleteRemote", "fetchingTotal",
     "fetchingProcessed", "createLocal", "updateLocal", "deleteLocal",
     "finished", "errors"}

EmptyReport == [k \in ReportKeys |-> 0]

NoItem == [exists |-> FALSE, updated_time |-> 0, sync_time |-> 0,
           sync_disabled |-> FALSE, fetch_status |-> FETCH_STATUS_DONE]

NoFile == [exists |-> FALSE, updated_time |-> 0, seq |-> 0]

NoQueue == [created |-> FALSE, stopping_ |-> FALSE, waitingTasks_ |-> <<>>,
            processingTasks_ |-> {}, results_ |-> <<>>]

NewQueue == [NoQueue EXCEPT !.created = TRUE]

EmptyFrame ==
    [pc |-> "none", syncSteps |-> {}, throwOnError |-> FALSE,
     saveContextHandler |-> FALSE, lastDelta |-> NoCtx, outDelta |-> NoCtx,
     errorToThrow |-> "", syncLock |-> FALSE,
     donePaths |-> <<>>, locals |-> <<>>, hasMore |-> FALSE, i |-> 1,
     action |-> "", remote |-> FALSE, remoteContent |-> 0,
     deleted |-> <<>>,
     context |-> NoCtx, newDeltaContext |-> NoCtx, hasCancelled |-> FALSE,
     remotes |-> <<>>, listContext |-> NoCtx, listHasMore |-> FALSE,
     localFoldersToDelete |-> <<>>, content |-> 0,
     mustHandleConflict |-> TRUE,
     \* history of the run, read only by the properties
     phasesDone |-> {}, calls |-> {}, processed |-> 0, donePages |-> {},
     lastDone |-> NoCtx, saved |-> FALSE, uploaded |-> {}, synced |-> {},
     refused |-> {}, noBlob |-> {}, caught |-> "", caughtAt |-> "none", wroteUnderLock |-> FALSE,
     disabledDispatched |-> {}, tooLarge |-> {}, resolved |-> {},
     loggedDelete |-> {}, statted |-> {}, noAction |-> {}, issuedCancelling |-> {}, issuedLocked |-> {}, failedUnderLock |-> {},
     rejected |-> {}, deleteReturned |-> {}, setUpgradeState |-> FALSE,
     duplicatedIds |-> {}, persistedFolders |-> {}, lostEdits |-> {},
     masterKeysBefore |-> 0, hasAutoEnabledEncryption |-> FALSE,
     keysAtStart |-> 0, autoEnabled |-> 0, savedLocal |-> {},
     afterClean |-> FALSE,
     toDelete |-> {}, prevUploaded |-> {}]

\* time.unixMs(): later than the updated_time of every initial item but the
\* one a client with a clock ahead has written to the target ("remoteAhead")
unixMs == 4 + events.started

\* --------------------------------------------------- the Item Store (local)
NeedsSync(L, id) ==
    /\ L[id].exists
    /\ ~L[id].sync_disabled
    /\ (L[id].sync_time = 0 \/ L[id].sync_time < L[id].updated_time)

\* BaseItem.itemsThatNeedSync: the next batch, in id order
itemsThatNeedSync(L) ==
    LET all == SetToSeq({id \in Ids : NeedsSync(L, id)})
        items == Prefix(all, BatchSize)
    IN [items |-> items, hasMore |-> Len(items) >= BatchSize]

neverSynced(L, id) == L[id].sync_time = 0

\* ItemClass.delete(id, options): trackDeleted defaults to true
itemDelete(L, D, id, trackDeleted) ==
    [L |-> [L EXCEPT ![id] = NoItem],
     D |-> IF trackDeleted /\ L[id].exists THEN D \cup {id} ELSE D]

\* ItemClass.save(content, {nextQueries: updateSyncTimeQueries(.., syncTime)})
itemSave(L, id, updatedTime, syncTime, fetchStatus) ==
    [L EXCEPT ![id] = [exists |-> TRUE, updated_time |-> updatedTime,
                       sync_time |-> syncTime, sync_disabled |-> FALSE,
                       fetch_status |-> fetchStatus]]

\* ------------------------------------------------ the File API (the target)
\* every change of a file gets the next number of the target's change feed
NextSeq(F) == 1 + (CHOOSE n \in {F[id].seq : id \in Ids} : \A id \in Ids : F[id].seq <= n)

filePut(F, id, updatedTime) ==
    [F EXCEPT ![id] = [exists |-> TRUE, updated_time |-> updatedTime,
                       seq |-> NextSeq(F)]]

fileDelete(F, id) ==
    IF F[id].exists
    THEN [F EXCEPT ![id] = [exists |-> FALSE, updated_time |-> 0, seq |-> NextSeq(F)]]
    ELSE F

\* the ids changed after the delta context ctx, oldest change first
RECURSIVE BySeq(_, _)
BySeq(F, S) ==
    IF S = {} THEN <<>>
    ELSE LET x == CHOOSE y \in S : \A z \in S : F[y].seq <= F[z].seq
         IN <<x>> \o BySeq(F, S \ {x})

ChangedSince(F, ctx) == BySeq(F, {id \in Ids : F[id].seq > ctx})

RemoteItemOf(F, id) ==
    [id |-> id, isDeleted |-> ~F[id].exists, jop_updated_time |-> F[id].updated_time]

\* delta(path, {context}): a page of k changes, its continuation, hasMore
deltaPage(F, ctx, k) ==
    LET all == ChangedSince(F, ctx)
        ids == Prefix(all, k)
    IN [items |-> [n \in 1..Len(ids) |-> RemoteItemOf(F, ids[n])],
        context |-> IF Len(ids) = 0 THEN ctx ELSE F[ids[Len(ids)]].seq,
        hasMore |-> Len(ids) < Len(all)]

\* ------------------------------------------------------ the Lock Handler
\* lines 651-659
lockErrorStatus_ ==
    IF exclusiveLock THEN "hasExclusiveLock"
    ELSE IF ~lockHeld THEN "syncLockGone" ELSE ""

\* the error of the File API thrown as it is
apiCallErrorKept(code) == code

\* the error apiCall throws when the File API call failed with `code`
apiCallError(code) == IF lockErrorStatus_ # "" THEN "lockError" ELSE code

\* lines 667-668: the File API call of item `id` failed with `code`; kept
\* when lockErrorStatus_() is not empty at that time
FailedCall(m, id, code) ==
    IF lockErrorStatus_ # ""
    THEN [m EXCEPT !.f.failedUnderLock = @ \cup {[id |-> id, code |-> code]}]
    ELSE m

isCannotSyncError(code) ==
    code \in {"rejectedByTarget", "fileNotFound", "request-timeout"}

\* shim.fetchRequestCanBeRetried
fetchRequestCanBeRetried(code) == code = "networkError"

ApiFaults == {"rejectedByTarget", "request-timeout", "networkError"}
StoreFaults == {"error"}

Outcomes(faults) == {"ok"} \cup (IF budget > 0 THEN faults ELSE {})

StoreOutcomes == Outcomes(StoreFaults)

Charge(o) == budget' = IF o = "ok" THEN budget ELSE budget - 1

\* ------------------------------------------------------------ start(): the
\* synchronous code between two awaits, as operators on the record M of what
\* that code reads and writes
M == [f |-> frame, r |-> progressReport_, cancelling |-> cancelling_,
      locked |-> syncTargetIsLocked_, refresh |-> autoRefresh,
      persisted |-> persisted]

Commit(m) ==
    /\ frame' = m.f
    /\ progressReport_' = m.r
    /\ cancelling_' = m.cancelling
    /\ syncTargetIsLocked_' = m.locked
    /\ autoRefresh' = m.refresh
    /\ persisted' = m.persisted

\* an operation counted once more than it is
logSyncOperationTwice(m, action, actionCount) ==
    [m EXCEPT !.r[action] = @ + actionCount + 1]

\* lines 536-576
logSyncOperation(m, action, actionCount) ==
    [m EXCEPT !.r[action] = @ + actionCount]

At(m, pc) == [m EXCEPT !.f.pc = pc]

\* lines 1361-1366, up to `await this.shareService_.maintenance()`
AfterRelease(m) ==
    [m EXCEPT !.locked = FALSE, !.cancelling = FALSE, !.f.pc = "maintenance"]

\* the lock neither released nor its refresh stopped
AfterTryKeepsLock(m) == AfterRelease(m)

\* lines 1356-1358: stopAutoLockRefresh, then `await releaseLock`
AfterTry(m) ==
    IF m.f.syncLock
    THEN [m EXCEPT !.refresh = FALSE, !.f.pc = "releaseLock"]
    ELSE AfterRelease(m)

InfoCodes ==
    {"cannotEncryptEncrypted", "noActiveMasterKey", "processingPathTwice",
     "failSafe", "lockError", "outdatedSyncTarget"}

\* an error kept for the throw whatever the options say
errorKeptAlways(throwOnError, code, before) == code

\* lines 1328-1329: the error is kept for the throw of line 1395
errorKept(throwOnError, code, before) == IF throwOnError THEN code ELSE before

\* the catch block of start(), lines 1327-1354
Catch(m, code) ==
    LET reported ==
            IF m.f.throwOnError THEN FALSE
            ELSE IF code \in InfoCodes THEN code \in {"failSafe", "lockError"}
            ELSE IF code = "unknownItemType" THEN TRUE
            ELSE ~fetchRequestCanBeRetried(code)
    IN AfterTry([m EXCEPT
           !.f.caught = code,
           !.f.caughtAt = m.f.pc,
           !.f.errorToThrow = errorKept(m.f.throwOnError, code, @),
           !.r["errors"] = @ + (IF reported THEN 1 ELSE 0)])

\* an apiCall that never looks at the flag
apiCallRefusedNever(locked) == FALSE

\* line 662: apiCall throws lockError before it calls the File API
apiCallRefused(locked) == locked

\* apiCall(fnName): refused at once while the target is locked, else issued
IssueApi(m, fnName, pc) ==
    IF apiCallRefused(m.locked) THEN Catch(m, "lockError")
    ELSE [m EXCEPT !.f.pc = pc,
                   !.f.calls = @ \cup {[fn |-> fnName, after |-> m.f.phasesDone]},
                   !.f.issuedLocked = @ \cup (IF m.locked THEN {fnName} ELSE {}),
                   !.f.issuedCancelling =
                       @ \cup (IF m.cancelling THEN {fnName} ELSE {})]

\* ------------------------------------------------------------ 3. DELTA
\* lines 1301-1325, after the page loop
AfterFolders(m) ==
    IF ~m.cancelling THEN At(m, "deleteOrphanSyncItems") ELSE AfterTry(m)

AfterDeltaLoop(m) ==
    LET m1 == [m EXCEPT !.f.outDelta =
                   IF m.f.newDeltaContext # NoCtx THEN m.f.newDeltaContext
                   ELSE m.f.lastDelta,
                   !.f.i = 1]
    IN IF ~m1.cancelling /\ Len(m1.f.localFoldersToDelete) > 0
       THEN At(m1, "folderDelete")
       ELSE AfterFolders(m1)

\* lines 1107-1110: the head of the page loop
DeltaLoop(m) ==
    IF m.cancelling \/ m.f.hasCancelled THEN AfterDeltaLoop(m)
    ELSE IssueApi(m, "delta", "delta")

\* lines 1278-1299: the end of a page
EndPage(m) ==
    LET whole == m.f.processed = Len(m.f.remotes)
        m0 == [m EXCEPT !.f.donePages = IF whole THEN @ \cup {m.f.listContext} ELSE @,
                        !.f.lastDone = IF whole THEN m.f.listContext ELSE @]
    IN IF ~m0.f.hasCancelled
       THEN LET m1 == IF m0.f.saveContextHandler
                      THEN [m0 EXCEPT !.persisted = m0.f.listContext, !.f.saved = TRUE,
                                      !.f.persistedFolders =
                                          SeqRange(m0.f.localFoldersToDelete)]
                      ELSE m0
            IN IF ~m1.f.listHasMore
               THEN AfterDeltaLoop([m1 EXCEPT !.f.newDeltaContext = m1.f.listContext])
               ELSE DeltaLoop([m1 EXCEPT !.f.context = m1.f.listContext])
       ELSE DeltaLoop(m0)

\* the break taken without recording the cancellation
ObserveCancelUnrecorded(m) == m

\* line 1152, taken when the loop over the page sees the cancelling flag
ObserveCancel(m) == [m EXCEPT !.f.hasCancelled = TRUE]

\* a Folder deleted like any other item
deletedLastNever(type) == FALSE

\* line 1268: the deletion of a local Folder is put off
deletedLast(type) == type = TYPE_FOLDER

\* lines 1150-1217 and 1267-1271: the loop over the remotes of a page, from
\* remote m.f.i to the next await (loadContent, deleteLocal) or to the end
\* BaseItem.isSystemPath(remote.path)
isSystemPath(type) == type # NOT_AN_ITEM

\* what a remote was when the page loop took no action for it
NoAction(remote, local, content, type) ==
    [id |-> remote.id, system |-> isSystemPath(type), exists |-> local.exists,
     isDeleted |-> remote.isDeleted, content |-> content,
     updated_time |-> local.updated_time]

RECURSIVE ProcessRemote(_, _, _)
ProcessRemote(m, L, T) ==
    IF m.f.i > Len(m.f.remotes) THEN EndPage(m)
    ELSE IF m.cancelling THEN EndPage(ObserveCancel(m))
    ELSE
      LET m1 == logSyncOperation(m, "fetchingProcessed", 1)
          remote == m.f.remotes[m.f.i]
          local == L[remote.id]
          next(mm) == ProcessRemote(
              [mm EXCEPT !.f.i = @ + 1, !.f.processed = @ + 1], L, T)
          skip(mm) == next(
              [mm EXCEPT !.f.noAction = @ \cup {NoAction(remote, local,
                                                   remote.jop_updated_time, T[remote.id])}])
      IN IF ~isSystemPath(T[remote.id]) THEN skip(m1)
         ELSE IF ~local.exists
         THEN IF ~remote.isDeleted
              THEN [m1 EXCEPT !.f.action = "createLocal", !.f.pc = "loadContent"]
              ELSE skip(m1)
         ELSE IF remote.isDeleted
              THEN LET m2 == logSyncOperation(
                                 [m1 EXCEPT !.f.action = "deleteLocal",
                                            !.f.loggedDelete = @ \cup {remote.id}],
                                 "deleteLocal", 1)
                   IN IF deletedLast(T[remote.id])
                      THEN next([m2 EXCEPT !.f.localFoldersToDelete = Append(@, remote.id)])
                      ELSE At(m2, "deleteLocal")
              ELSE IF supportsAccurateTimestamp
                      /\ remote.jop_updated_time = local.updated_time
                   THEN skip(m1)
                   ELSE [m1 EXCEPT !.f.action = "", !.f.pc = "loadContent"]

\* `continue`, or the end of the loop body, for remote m.f.i
NextRemote(m, L, T) ==
    ProcessRemote([m EXCEPT !.f.i = @ + 1, !.f.processed = @ + 1], L, T)

\* lines 1097-1105
BeginDelta(m) ==
    IF "delta" \in m.f.syncSteps
    THEN DeltaLoop([m EXCEPT !.f.context = m.f.lastDelta,
                             !.f.newDeltaContext = NoCtx,
                             !.f.localFoldersToDelete = <<>>,
                             !.f.hasCancelled = FALSE])
    ELSE AfterTry(m)

\* ------------------------------------------------------ 2. DELETE_REMOTE
\* line 1084, then `await this.downloadQueue_.stop()` of line 1093
EndDelete(m) ==
    [m EXCEPT !.f.phasesDone = @ \cup {"delete_remote"}, !.f.pc = "newDownloadQueue"]

DeleteItemNever(m) == EndDelete(m)

\* lines 1069-1075: the loop over the deleted items, from entry m.f.i
DeleteItem(m) ==
    IF m.f.i > Len(m.f.deleted) \/ m.cancelling THEN EndDelete(m)
    ELSE IssueApi(logSyncOperation(m, "deleteRemote", 1), "delete", "deleteRemote")

\* line 1059, then lines 1067-1068
BeginDeleteRemote(m) ==
    LET m1 == [m EXCEPT !.f.phasesDone = @ \cup {"update_remote"}]
    IN IF "delete_remote" \in m1.f.syncSteps
       THEN At(m1, "deletedItems")
       ELSE EndDelete(m1)

\* ------------------------------------------------------------- 1. UPLOAD
\* lines 797-800: the head of the batch loop
UploadLoop(m) ==
    IF m.cancelling THEN BeginDeleteRemote(m) ELSE At(m, "itemsThatNeedSync")

\* line 1057
AfterBatch(m) ==
    IF ~m.f.hasMore THEN BeginDeleteRemote(m) ELSE UploadLoop(m)

getConflictType(type) ==
    IF type = TYPE_NOTE THEN "noteConflict"
    ELSE IF type = TYPE_RESOURCE THEN "resourceConflict"
    ELSE "itemConflict"

\* an upload whatever the remote is
UploadActionNoConflict(type, syncTime, remoteExists, remoteUpdatedTime) ==
    IF remoteExists THEN "updateRemote" ELSE "createRemote"

\* lines 833-883: the action for a local item, from the remote found
UploadAction(type, syncTime, remoteExists, remoteUpdatedTime) ==
    IF ~remoteExists
    THEN IF syncTime = 0 THEN "createRemote" ELSE getConflictType(type)
    ELSE IF remoteUpdatedTime > syncTime THEN getConflictType(type)
         ELSE "updateRemote"

\* a note whose remote is gone taken for one that needs no copy
mustHandleConflictIfRemote(remote, differs) == remote /\ differs

\* lines 1006-1009: true unless there is a remote content and
\* Note.mustHandleConflict(local, remoteContent) says the difference is not
\* material (`differs`)
mustHandleConflict(remote, differs) == IF remote THEN differs ELSE TRUE

\* lines 949-1032: where the action decided for the item awaits first
Dispatch(m) ==
    LET a == m.f.action
    IN IF a \in {"createRemote", "updateRemote"} THEN At(m, "serializeAndUploadItem")
       ELSE IF a = "itemConflict" THEN At(m, "itemConflict")
       ELSE IF a = "noteConflict"
            THEN IF mustHandleConflict(m.f.remote, m.f.mustHandleConflict)
                 THEN At(m, "createConflictNote")
                 ELSE At(m, "conflictResolve")
       ELSE At(m, "createConflictResourceNote")

\* lines 885-888: the action is logged; a Resource to upload goes by its blob
AfterDecision(m, type) ==
    LET m1 == logSyncOperation(m, m.f.action, 1)
    IN IF type = TYPE_RESOURCE /\ m.f.action \in {"createRemote", "updateRemote"}
       THEN At(m1, "localState")
       ELSE Dispatch(m1)

\* the safety check left out
alreadyDoneNever(donePaths, id) == FALSE

\* line 819: donePaths.indexOf(path) >= 0
alreadyDone(donePaths, id) == id \in SeqRange(donePaths)

\* lines 805-821: the loop over the batch, from item m.f.i to its first await
UploadItem(m, L, T) ==
    IF m.f.i > Len(m.f.locals) \/ m.cancelling THEN AfterBatch(m)
    ELSE LET id == m.f.locals[m.f.i]
         IN IF alreadyDone(m.f.donePaths, id) THEN Catch(m, "processingPathTwice")
            ELSE IF neverSynced(L, id)
                 THEN AfterDecision(
                          [m EXCEPT !.f.remote = FALSE, !.f.remoteContent = 0,
                                    !.f.mustHandleConflict = TRUE,
                                    !.f.action = UploadAction(T[id], L[id].sync_time, FALSE, 0)],
                          T[id])
                 ELSE IssueApi([m EXCEPT !.f.statted = @ \cup
                                    {[id |-> id, sync_time |-> L[id].sync_time]}],
                               "stat", "stat")

\* lines 793-795 and 1054: completeItemProcessing(path), then the next item
CompleteItem(m, L, T) ==
    UploadItem([m EXCEPT !.f.donePaths = Append(@, m.f.locals[m.f.i]),
                         !.f.i = @ + 1], L, T)

\* DELETE_REMOTE entered first
DeleteBeforeUpload(m) == At(m, "deletedItems")

\* lines 790-791
BeginUpload(m) ==
    IF "update_remote" \in m.f.syncSteps
    THEN UploadLoop([m EXCEPT !.f.donePaths = <<>>])
    ELSE BeginDeleteRemote(m)

\* ------------------------------------------------- the Download Queue
\* TaskQueue.processQueue_: issue waiting fetches while a slot is free
RECURSIVE processQueue_(_, _, _)
processQueue_(q, locked, state) ==
    IF q.stopping_ \/ Len(q.waitingTasks_) = 0
       \/ Cardinality(q.processingTasks_) >= Concurrency
    THEN q
    ELSE processQueue_(
             [q EXCEPT !.waitingTasks_ = Tail(@),
                       !.processingTasks_ =
                           @ \cup {[id |-> Head(q.waitingTasks_),
                                     locked |-> apiCallRefused(locked),
                                     startedWhile |-> state]}],
             locked, state)

\* TaskQueue.push for every path of `ids`, in order
queuePush(q, ids, locked, state) ==
    processQueue_([q EXCEPT !.waitingTasks_ = @ \o ids], locked, state)

\* TaskQueue.stop
queueStop(q) == IF q.created THEN [q EXCEPT !.stopping_ = TRUE] ELSE q

\* lines 1134-1148: the paths of the page to fetch
needsToDownload(L, remote) ==
    ~(supportsAccurateTimestamp /\ L[remote.id].exists
      /\ L[remote.id].updated_time = remote.jop_updated_time)

ToDownload(L, remotes) ==
    SelectSeq([n \in 1..Len(remotes) |-> remotes[n].id],
              LAMBDA id : \E n \in 1..Len(remotes) :
                              remotes[n].id = id /\ needsToDownload(L, remotes[n]))

\* MasterKey.count()
masterKeyCount(L, T) ==
    Cardinality({id \in Ids : T[id] = TYPE_MASTER_KEY /\ L[id].exists})

\* encryption enabled for every master key downloaded
autoEnableAlways(has, type, before) == type = TYPE_MASTER_KEY

\* line 1257
autoEnable(has, type, before) == ~has /\ type = TYPE_MASTER_KEY /\ before = 0

\* ---------------------------------------------------------------- start()
\* what no step of the program changes
frozenVars == <<itemType, supportsAccurateTimestamp, exclusiveLock, appType_, itemSize,
                other>>
callerVars == <<pollers, lastStart, lastCancel>>

\* line 647
isFullSync(steps) == AllSteps \subseteq steps

\* the state check left out
CanStartAlways == TRUE

\* line 688
CanStart == state_ = "idle"

\* the options of start(): the steps asked for, throwOnError, whether a
\* saveContextHandler is given
OptionChoices ==
    {[syncSteps |-> AllSteps, throwOnError |-> FALSE, saveContextHandler |-> TRUE],
     [syncSteps |-> AllSteps, throwOnError |-> TRUE, saveContextHandler |-> FALSE],
     [syncSteps |-> {"update_remote", "delete_remote"}, throwOnError |-> FALSE,
      saveContextHandler |-> FALSE],
     [syncSteps |-> {"delta"}, throwOnError |-> TRUE, saveContextHandler |-> TRUE]}

\* options.context.delta: what saveContextHandler stored last, or what the
\* run before returned
ContextChoices ==
    {persisted} \cup (IF lastEnd.how = "returned" THEN {lastEnd.delta} ELSE {})

StartOptions == [options : OptionChoices, delta : ContextChoices]

\* lines 685-711: start(options) while idle, up to `await MasterKey.count()`
Start ==
    /\ budget > 0
    /\ CanStart
    /\ \E o \in StartOptions :
         frame' = [EmptyFrame EXCEPT !.pc = "masterKeyCount",
                                     !.syncSteps = o.options.syncSteps,
                                     !.throwOnError = o.options.throwOnError,
                                     !.saveContextHandler = o.options.saveContextHandler,
                                     !.lastDelta = o.delta,
                                     !.outDelta = o.delta,
                                     !.afterClean = lastEnd.clean,
                                     !.keysAtStart = masterKeyCount(localItems, itemType),
                                     !.toDelete = deletedItems,
                                     !.prevUploaded = lastEnd.uploaded]
    /\ state_' = "in_progress"
    /\ progressReport_' = EmptyReport
    /\ syncTargetIsLocked_' = FALSE
    /\ cancelling_' = FALSE
    /\ activeRuns' = activeRuns + 1
    /\ lastStart' = [state |-> state_, result |-> "started"]
    /\ budget' = budget - 1
    /\ UNCHANGED <<downloadQueue_, storeVars, targetVars, lockVars, persisted,
                   events, pollers, lastEnd, lastCancel>>

\* lines 688-692: start() while not idle throws alreadyStarted
StartRejected ==
    /\ budget > 0
    /\ ~CanStart
    /\ lastStart' = [state |-> state_, result |-> "alreadyStarted"]
    /\ budget' = budget - 1
    /\ UNCHANGED <<syncVars, frame, storeVars, targetVars, lockVars, persisted,
                   events, pollers, activeRuns, lastEnd, lastCancel>>

\* the sync_time of the item says that it is synchronised
inSync(L, id) == L[id].exists /\ L[id].sync_time = L[id].updated_time

\* the run ends by returning, after all three phases, with no error caught
\* and no cancellation
cleanFullSync(how) ==
    /\ how = "returned"
    /\ isFullSync(frame.syncSteps)
    /\ frame.caught = ""
    /\ progressReport_["errors"] = 0
    /\ progressReport_["cancelling"] = 0

Ended(how) ==
    [how |-> how, clean |-> cleanFullSync(how), delta |-> frame.outDelta, syncLock |-> frame.syncLock,
     lockHeld |-> lockHeld, autoRefresh |-> autoRefresh,
     saved |-> frame.saved, hasCancelled |-> frame.hasCancelled,
     lastDone |-> frame.lastDone,
     uploaded |-> frame.uploaded,
     toDelete |-> frame.toDelete, prevUploaded |-> frame.prevUploaded,
     caught |-> frame.caught, caughtAt |-> frame.caughtAt,
     throwOnError |-> frame.throwOnError,
     syncSteps |-> frame.syncSteps, cancelled |-> progressReport_["cancelling"] > 0,
     isFullSync |-> events'.isFullSync,
     state |-> state_', started |-> events.started, completed |-> events'.completed,
     stale |-> {id \in frame.uploaded : ~inSync(localItems, id)},
     staleSynced |-> {id \in frame.synced : ~inSync(localItems, id)}]

\* an error leaves start() outside the try block: the promise is rejected
\* and nothing else of start() runs
Reject ==
    /\ frame' = EmptyFrame
    /\ activeRuns' = activeRuns - 1
    /\ UNCHANGED <<syncVars, storeVars, targetVars, lockVars, persisted, events>>
    /\ lastEnd' = Ended("rejected")

\* a step of start(): what M holds, the local items, the deleted items and
\* the files of the target change, the rest of the collaborators does not
Effect(m, L, D, F) ==
    /\ Commit(IF exclusiveLock /\ F # remoteFiles
              THEN [m EXCEPT !.f.wroteUnderLock = TRUE]
              ELSE m)
    /\ localItems' = L
    /\ deletedItems' = D
    /\ remoteFiles' = F
    /\ UNCHANGED <<state_, downloadQueue_, itemType, conflictNotes,
                   supportsAccurateTimestamp, targetVersion, lockHeld, events,
                   activeRuns, lastEnd>>

Only(m) == Effect(m, localItems, deletedItems, remoteFiles)

\* lines 711-740: MasterKey.count() returns; SYNC_STARTED; 'starting' logged
StepMasterKeyCount ==
    /\ frame.pc = "masterKeyCount"
    /\ \E o \in StoreOutcomes :
         /\ Charge(o)
         /\ IF o = "ok"
            THEN /\ Commit(At(logSyncOperation(
                               [M EXCEPT !.f.masterKeysBefore =
                                    masterKeyCount(localItems, itemType)],
                               "starting", 1), "indexNoteResources"))
                 /\ events' = [events EXCEPT !.started = @ + 1]
                 /\ UNCHANGED <<state_, downloadQueue_, storeVars, targetVars,
                                lockHeld, activeRuns, lastEnd>>
            ELSE Reject
    /\ UNCHANGED <<frozenVars, callerVars>>

\* lines 737-748: indexNoteResources() returns or throws (caught and logged)
StepIndexNoteResources ==
    /\ frame.pc = "indexNoteResources"
    /\ \E o \in Outcomes({"error"}) :
         /\ Charge(o)
         /\ Only(At(M, "updateAllShareIds"))
    /\ UNCHANGED <<frozenVars, callerVars>>

\* lines 748-756: Folder.updateAllShareIds() returns or throws
StepUpdateAllShareIds ==
    /\ frame.pc = "updateAllShareIds"
    /\ \E o \in StoreOutcomes :
         /\ Charge(o)
         /\ IF o = "ok" THEN Only(At(M, "initialize")) ELSE Reject
    /\ UNCHANGED <<frozenVars, callerVars>>

\* lines 756-760: api().initialize()
StepInitialize ==
    /\ frame.pc = "initialize"
    /\ \E o \in Outcomes({"networkError"}) :
         /\ Charge(o)
         /\ Only(IF o = "ok" THEN At(M, "checkCanSync") ELSE Catch(M, o))
    /\ UNCHANGED <<frozenVars, callerVars>>

\* the setting left as it is
shouldUpgradeNever(code) == FALSE

\* line 769: error.code === 'outdatedSyncTarget'
shouldUpgrade(code) == code = "outdatedSyncTarget"

\* lines 768-773: the catch around checkCanSync and upgrade; when
\* shouldUpgrade, Setting.setValue('sync.upgradeState', SHOULD_DO)
CatchMigration(m, code) ==
    Catch([m EXCEPT !.f.setUpgradeState = @ \/ shouldUpgrade(code)], code)

\* lines 760-775: migrationHandler().checkCanSync()
StepCheckCanSync ==
    /\ frame.pc = "checkCanSync"
    /\ \E o \in Outcomes({"outdatedSyncTarget"}) :
         /\ Charge(o)
         /\ Only(IF o # "ok" THEN CatchMigration(M, o)
                 ELSE IF targetVersion = 0 THEN At(M, "upgrade")
                 ELSE At(M, "acquireLock"))
    /\ UNCHANGED <<frozenVars, callerVars>>

\* lines 764-775: migrationHandler().upgrade(syncVersion) of a new target
StepUpgrade ==
    /\ frame.pc = "upgrade"
    /\ \E o \in Outcomes({"networkError"}) :
         /\ Charge(o)
         /\ Commit(IF o = "ok" THEN At(M, "acquireLock") ELSE CatchMigration(M, o))
         /\ targetVersion' = IF o = "ok" THEN 1 ELSE targetVersion
    /\ UNCHANGED <<state_, downloadQueue_, storeVars, remoteFiles, lockHeld,
                   events, activeRuns, lastEnd, frozenVars, callerVars>>

\* lines 775-800: acquireLock and startAutoLockRefresh, then into UPLOAD
StepAcquireLock ==
    /\ frame.pc = "acquireLock"
    /\ \E o \in IF exclusiveLock THEN {"lockError"} ELSE Outcomes({"networkError"}) :
         /\ Charge(IF o = "lockError" THEN "ok" ELSE o)
         /\ Commit(IF o = "ok"
                   THEN BeginUpload([M EXCEPT !.f.syncLock = TRUE, !.refresh = TRUE])
                   ELSE Catch(M, o))
         /\ lockHeld' = (o = "ok")
    /\ UNCHANGED <<state_, downloadQueue_, storeVars, remoteFiles, targetVersion,
                   events, activeRuns, lastEnd, frozenVars, callerVars>>

\* ---------------------------------------------------- steps of 1. UPLOAD
CurrentLocal == frame.locals[frame.i]

\* a step of UPLOAD that changes M and the local items
StoreStep(m, L) == Effect(m, L, deletedItems, remoteFiles)

\* handleCannotSyncItem (lines 725-728): ItemClass.saveSyncDisabled
saveSyncDisabled(L, id) == [L EXCEPT ![id].sync_disabled = TRUE]

\* handleCannotSyncItem (line 727): SYNC_HAS_DISABLED_SYNC_ITEMS dispatched
dispatchDisabled(m, id) == [m EXCEPT !.f.disabledDispatched = @ \cup {id}]

\* 100 * 1000 * 1000 bytes (line 484), in the unit of itemSize
MobileMaxResourceSize == 2

\* a size limit that is never reached
maxResourceSizeNone(appType) == 3

\* lines 482-485: maxResourceSize(); 3 is more than every size, for Infinity
maxResourceSize(appType) == IF appType = "mobile" THEN MobileMaxResourceSize ELSE 3

\* lines 800-803: itemsThatNeedSync() returns the batch
StepItemsThatNeedSync ==
    /\ frame.pc = "itemsThatNeedSync"
    /\ \E o \in StoreOutcomes :
         /\ Charge(o)
         /\ Only(IF o # "ok" THEN Catch(M, o)
                 ELSE LET result == itemsThatNeedSync(localItems)
                      IN [M EXCEPT !.f.locals = result.items,
                                   !.f.hasMore = result.hasMore,
                                   !.f.pc = "preUploadItems"])
    /\ UNCHANGED <<frozenVars, callerVars>>

\* lines 803-821: preUploadItems() returns; the first item of the batch
StepPreUploadItems ==
    /\ frame.pc = "preUploadItems"
    /\ \E o \in Outcomes({"networkError"}) :
         /\ Charge(o)
         /\ Only(IF o # "ok" THEN Catch(M, apiCallError(o))
                 ELSE UploadItem([M EXCEPT !.f.i = 1], localItems, itemType))
    /\ UNCHANGED <<frozenVars, callerVars>>

\* lines 821-859: apiCall('stat', path) returns the remote stub or null
StepStat ==
    /\ frame.pc = "stat"
    /\ \E o \in Outcomes(ApiFaults) :
         /\ Charge(o)
         /\ LET id == CurrentLocal
            IN Only(IF o # "ok" THEN Catch(M, apiCallError(o))
                    ELSE IF remoteFiles[id].exists
                    THEN IssueApi([M EXCEPT !.f.remote = TRUE], "get", "get")
                    ELSE AfterDecision(
                             [M EXCEPT !.f.remote = FALSE, !.f.remoteContent = 0,
                                       !.f.mustHandleConflict = TRUE,
                                       !.f.action = UploadAction(itemType[id],
                                           localItems[id].sync_time, FALSE, 0)],
                             itemType[id]))
    /\ UNCHANGED <<frozenVars, callerVars>>

\* lines 859-888: apiCall('get', path) returns the remote content. Whether a
\* note conflict must be handled (Note.mustHandleConflict, line 1008) depends
\* on the two texts, which are an input here
StepGet ==
    /\ frame.pc = "get"
    /\ \E o \in Outcomes(ApiFaults) :
         /\ Charge(o)
         /\ LET id == CurrentLocal
                code == apiCallError(o)
                action == UploadAction(itemType[id], localItems[id].sync_time,
                                       TRUE, remoteFiles[id].updated_time)
            IN IF o = "ok"
               THEN \E must \in (IF action = "noteConflict" THEN BOOLEAN ELSE {TRUE}) :
                      Only(AfterDecision(
                               [M EXCEPT !.f.remoteContent = remoteFiles[id].updated_time,
                                         !.f.mustHandleConflict = must,
                                         !.f.action = action],
                               itemType[id]))
               ELSE Only(IF code = "rejectedByTarget"
                         THEN CompleteItem([FailedCall(M, id, o) EXCEPT
                                                !.r["errors"] = @ + 1,
                                                !.f.rejected = @ \cup
                                                    {[id |-> id, at |-> "get"]}],
                                           localItems, itemType)
                         ELSE Catch(FailedCall(M, id, o), code))
    /\ UNCHANGED <<frozenVars, callerVars>>

\* the test of the fetch status left out
blobPresentAlways(local) == TRUE

\* line 889: localState.fetch_status === Resource.FETCH_STATUS_DONE
blobPresent(local) == local.fetch_status = FETCH_STATUS_DONE

\* lines 888-937: Resource.localState(); without the blob the item is marked
\* sync-disabled, else fullPathForSyncUpload() and the put of the blob
StepLocalState ==
    /\ frame.pc = "localState"
    /\ \E o \in StoreOutcomes :
         /\ Charge(o)
         /\ LET id == CurrentLocal
            IN IF o # "ok" THEN StoreStep(Catch(M, o), localItems)
               ELSE IF ~blobPresent(localItems[id])
               THEN LET L == saveSyncDisabled(localItems, id)
                    IN StoreStep(CompleteItem(
                           [dispatchDisabled(M, id) EXCEPT !.f.action = "",
                                     !.f.noBlob = @ \cup {[id |-> id,
                                         sync_time |-> localItems[id].sync_time]}],
                           L, itemType), L)
               ELSE StoreStep(IssueApi(M, "put", "putBlob"), localItems)
    /\ UNCHANGED <<frozenVars, callerVars>>

\* lines 937-949: the put of the blob returns
StepPutBlob ==
    /\ frame.pc = "putBlob"
    /\ \E o \in Outcomes(ApiFaults) :
         /\ Charge(o)
         /\ LET id == CurrentLocal
                code == apiCallError(o)
            IN IF o = "ok" THEN StoreStep(Dispatch(M), localItems)
               ELSE IF isCannotSyncError(code)
               THEN LET L == saveSyncDisabled(localItems, id)
                    IN StoreStep(CompleteItem([dispatchDisabled(FailedCall(M, id, o), id)
                                                   EXCEPT !.f.action = ""],
                                              L, itemType), L)
               ELSE StoreStep(Catch(FailedCall(M, id, o), code), localItems)
    /\ UNCHANGED <<frozenVars, callerVars>>

\* the time of the upload saved instead
syncTimeIsNow(local) == unixMs

\* line 983: the sync_time saved after an upload
syncTimeAfterUpload(local) == local.updated_time

\* lines 955-961: what the upload's error does to the item
uploadRefused(code) == code = "rejectedByTarget"

\* lines 949-961: serializeAndUploadItem() puts the item through apiCall
StepSerializeAndUploadItem ==
    /\ frame.pc = "serializeAndUploadItem"
    /\ \E o \in Outcomes(ApiFaults) :
         /\ Charge(o)
         /\ LET id == CurrentLocal
                code == apiCallError(o)
            IN IF apiCallRefused(syncTargetIsLocked_)
               THEN /\ o = "ok"
                    /\ Only(Catch(M, "lockError"))
               ELSE IF o = "ok"
               THEN Effect([M EXCEPT !.f.pc = "saveSyncTime",
                                     !.f.issuedLocked = @ \cup
                                         (IF syncTargetIsLocked_ THEN {"put"} ELSE {}),
                                     !.f.calls = @ \cup {[fn |-> "put",
                                         after |-> frame.phasesDone]},
                                     !.f.uploaded = @ \cup {id}],
                           localItems, deletedItems,
                           filePut(remoteFiles, id, localItems[id].updated_time))
               ELSE IF uploadRefused(code)
               THEN LET L == saveSyncDisabled(localItems, id)
                    IN StoreStep(CompleteItem(
                           [dispatchDisabled(FailedCall(M, id, o), id)
                               EXCEPT !.f.refused = @ \cup {id},
                                      !.f.rejected = @ \cup
                                          {[id |-> id, at |-> "upload"]}],
                           L, itemType), L)
               ELSE Only(Catch([FailedCall(M, id, o) EXCEPT !.f.refused = @ \cup {id}],
                               code))
    /\ UNCHANGED <<frozenVars, callerVars>>

\* lines 977-984 and 1054: saveSyncTime(), then the next item
StepSaveSyncTime ==
    /\ frame.pc = "saveSyncTime"
    /\ \E o \in StoreOutcomes :
         /\ Charge(o)
         /\ LET id == CurrentLocal
                L == [localItems EXCEPT ![id].sync_time =
                          syncTimeAfterUpload(localItems[id])]
            IN IF o = "ok"
               THEN StoreStep(CompleteItem([M EXCEPT !.f.synced = @ \cup {id}],
                                           L, itemType), L)
               ELSE StoreStep(Catch(M, o), localItems)
    /\ UNCHANGED <<frozenVars, callerVars>>

\* the local item kept as it is
takeRemoteNever(L, D, id) == [L |-> L, D |-> D]

\* lines 991-998 and 1042-1051: the remote content replaces the local item,
\* or, the remote being gone, the local item is deleted
takeRemote(L, D, id) ==
    IF frame.remote
    THEN [L |-> itemSave(L, id, frame.remoteContent, unixMs, L[id].fetch_status),
          D |-> D]
    ELSE itemDelete(L, D, id, TRUE)

\* a conflict step: the store changes, then `next` of M
ConflictStep(o, next, L, D, notes) ==
    /\ Commit(IF o = "ok" THEN next ELSE Catch(M, o))
    /\ localItems' = IF o = "ok" THEN L ELSE localItems
    /\ deletedItems' = IF o = "ok" THEN D ELSE deletedItems
    /\ conflictNotes' = IF o = "ok" THEN notes ELSE conflictNotes
    /\ UNCHANGED <<state_, downloadQueue_, targetVars, lockHeld, events,
                   activeRuns, lastEnd, itemType, callerVars>>

\* lines 985-998 and 1054: itemConflict
StepItemConflict ==
    /\ frame.pc = "itemConflict"
    /\ \E o \in StoreOutcomes :
         /\ Charge(o)
         /\ LET s == takeRemote(localItems, deletedItems, CurrentLocal)
            IN ConflictStep(o, CompleteItem(M, s.L, itemType), s.L, s.D, conflictNotes)

\* lines 1016-1018: Note.createConflictNote()
StepCreateConflictNote ==
    /\ frame.pc = "createConflictNote"
    /\ \E o \in StoreOutcomes :
         /\ Charge(o)
         /\ ConflictStep(o, At([M EXCEPT !.f.duplicatedIds = @ \cup {CurrentLocal}],
                                "conflictResolve"),
                         localItems, deletedItems, conflictNotes + 1)

\* lines 1019-1032: Resource.createConflictResourceNote(), setLocalState()
StepCreateConflictResourceNote ==
    /\ frame.pc = "createConflictResourceNote"
    /\ \E o \in StoreOutcomes :
         /\ Charge(o)
         /\ ConflictStep(o, At([M EXCEPT !.f.duplicatedIds = @ \cup {CurrentLocal}],
                                "conflictResolve"),
                IF frame.remote
                THEN [localItems EXCEPT ![CurrentLocal].fetch_status = FETCH_STATUS_IDLE]
                ELSE localItems,
                deletedItems, conflictNotes + 1)

\* lines 1034-1054: the local note or resource takes the remote content
StepConflictResolve ==
    /\ frame.pc = "conflictResolve"
    /\ \E o \in StoreOutcomes :
         /\ Charge(o)
         /\ LET s == takeRemote(localItems, deletedItems, CurrentLocal)
                m == [M EXCEPT !.f.resolved = @ \cup
                         {[id |-> CurrentLocal, remote |-> frame.remote,
                           differs |-> frame.mustHandleConflict,
                           duplicated |-> CurrentLocal \in frame.duplicatedIds]}]
            IN ConflictStep(o, CompleteItem(m, s.L, itemType), s.L, s.D, conflictNotes)

\* --------------------------------------------- steps of 2. DELETE_REMOTE
CurrentDeleted == frame.deleted[frame.i]

\* lines 1068-1075: deletedItems() returns the queue of local deletions
StepDeletedItems ==
    /\ frame.pc = "deletedItems"
    /\ \E o \in StoreOutcomes :
         /\ Charge(o)
         /\ Only(IF o # "ok" THEN Catch(M, o)
                 ELSE DeleteItem([M EXCEPT !.f.deleted = SetToSeq(deletedItems),
                                           !.f.i = 1]))
    /\ UNCHANGED <<frozenVars, callerVars>>

\* no item has a blob on the target
hasRemoteBlobNever(type) == FALSE

\* line 1077: item.item_type === BaseModel.TYPE_RESOURCE
hasRemoteBlob(type) == type = TYPE_RESOURCE

\* the delete of `path` ("item" or "blob") of the current entry has returned
deleteReturned(m, id, path) ==
    [m EXCEPT !.f.deleteReturned = @ \cup {[id |-> id, path |-> path]}]

\* lines 1075-1080: apiCall('delete', path) of the item file returns
StepDeleteRemote ==
    /\ frame.pc = "deleteRemote"
    /\ \E o \in Outcomes(ApiFaults) :
         /\ Charge(o)
         /\ IF o # "ok" THEN Only(Catch(M, apiCallError(o)))
            ELSE Effect(IF hasRemoteBlob(itemType[CurrentDeleted])
                        THEN IssueApi(deleteReturned(M, CurrentDeleted, "item"),
                                      "delete", "deleteRemoteBlob")
                        ELSE At(deleteReturned(M, CurrentDeleted, "item"),
                                "remoteDeletedItem"),
                        localItems, deletedItems,
                        fileDelete(remoteFiles, CurrentDeleted))
    /\ UNCHANGED <<frozenVars, callerVars>>

\* lines 1077-1082: apiCall('delete', Resources/id) returns
StepDeleteRemoteBlob ==
    /\ frame.pc = "deleteRemoteBlob"
    /\ \E o \in Outcomes(ApiFaults) :
         /\ Charge(o)
         /\ Only(IF o # "ok" THEN Catch(M, apiCallError(o))
                 ELSE At(deleteReturned(M, CurrentDeleted, "blob"),
                         "remoteDeletedItem"))
    /\ UNCHANGED <<frozenVars, callerVars>>

\* lines 1082-1084: remoteDeletedItem() consumes the entry; the next entry
StepRemoteDeletedItem ==
    /\ frame.pc = "remoteDeletedItem"
    /\ \E o \in StoreOutcomes :
         /\ Charge(o)
         /\ IF o # "ok" THEN Only(Catch(M, o))
            ELSE Effect(DeleteItem([M EXCEPT !.f.i = @ + 1]), localItems,
                        deletedItems \ {CurrentDeleted}, remoteFiles)
    /\ UNCHANGED <<frozenVars, callerVars>>

\* ----------------------------------------------------- steps of 3. DELTA
CurrentRemote == frame.remotes[frame.i]

\* lines 1093-1110: the queue of the run before is stopped and a new one made
StepNewDownloadQueue ==
    /\ frame.pc = "newDownloadQueue"
    /\ Commit(BeginDelta(M))
    /\ downloadQueue_' = NewQueue
    /\ UNCHANGED <<state_, storeVars, targetVars, lockHeld, events, activeRuns,
                   lastEnd, budget, pollers, lastStart, lastCancel>>

\* lines 1110-1132: apiCall('delta') returns a page of at most PageSize items
StepDelta ==
    /\ frame.pc = "delta"
    /\ \E o \in Outcomes({"networkError", "failSafe"}) :
         /\ Charge(o)
         /\ IF o # "ok" THEN Only(Catch(M, apiCallError(o)))
            ELSE \E k \in 1..PageSize :
                   LET listResult == deltaPage(remoteFiles, frame.context, k)
                   IN Only(logSyncOperation(
                               [M EXCEPT !.f.remotes = listResult.items,
                                         !.f.listContext = listResult.context,
                                         !.f.listHasMore = listResult.hasMore,
                                         !.f.i = 1, !.f.processed = 0,
                                         !.f.pc = "loadItemsByIds"],
                               "fetchingTotal", Len(listResult.items)))
    /\ UNCHANGED <<frozenVars, callerVars>>

\* lines 1132-1158: loadItemsByIds() returns; the fetches of the page are
\* pushed on the Download Queue; the first remote of the page
StepLoadItemsByIds ==
    /\ frame.pc = "loadItemsByIds"
    /\ \E o \in StoreOutcomes :
         /\ Charge(o)
         /\ IF o # "ok"
            THEN /\ Commit(Catch(M, o))
                 /\ UNCHANGED downloadQueue_
            ELSE /\ Commit(ProcessRemote(M, localItems, itemType))
                 /\ downloadQueue_' =
                        IF cancelling_ THEN downloadQueue_
                        ELSE queuePush(downloadQueue_,
                                       ToDownload(localItems, frame.remotes),
                                       syncTargetIsLocked_, state_)
    /\ UNCHANGED <<state_, storeVars, targetVars, lockHeld, events, activeRuns,
                   lastEnd, callerVars>>

\* an equal remote taken for a newer one
remoteIsNewerOrEqual(content, local) == content # 0 /\ content >= local.updated_time

\* line 1195
remoteIsNewer(content, local) == content # 0 /\ content > local.updated_time

\* lines 1161-1253: waitForResult(path) returns the fetch of the remote; the
\* action is settled and logged
StepLoadContent ==
    /\ frame.pc = "loadContent"
    /\ CurrentRemote.id \in DOMAIN downloadQueue_.results_
    /\ LET id == CurrentRemote.id
           task == downloadQueue_.results_[id]
           local == localItems[id]
           action == IF ~local.exists THEN "createLocal"
                     ELSE IF remoteIsNewer(task.result, local) THEN "updateLocal"
                     ELSE ""
           L == saveSyncDisabled(localItems, id)
       IN IF task.error = "rejectedByTarget"
          THEN Only(NextRemote([M EXCEPT !.r["errors"] = @ + 1,
                                         !.f.rejected = @ \cup
                                             {[id |-> id, at |-> "loadContent"]}],
                               localItems, itemType))
          ELSE IF task.error # "" THEN Only(Catch(M, task.error))
          ELSE IF action = ""
          THEN Only(NextRemote(
                   [M EXCEPT !.f.noAction = @ \cup {NoAction(CurrentRemote, local,
                                                    task.result, itemType[id])}],
                   localItems, itemType))
          ELSE IF task.result = 0
          THEN Only(NextRemote(logSyncOperation(M, action, 1), localItems, itemType))
          ELSE IF itemType[id] = TYPE_RESOURCE
                  /\ itemSize[id] >= maxResourceSize(appType_)
          THEN StoreStep(NextRemote(
                   [dispatchDisabled(logSyncOperation(M, action, 1), id) EXCEPT
                        !.f.tooLarge = @ \cup {[id |-> id, before |-> local]}],
                   L, itemType), L)
          ELSE Only([logSyncOperation(M, action, 1) EXCEPT
                         !.f.action = action, !.f.content = task.result,
                         !.f.pc = "saveLocal"])
    /\ UNCHANGED <<frozenVars, callerVars, budget>>

\* lines 1244-1266: ResourceLocalState.save() and ItemClass.save(content)
\* DELTA writes over or deletes the local item `id`: kept when the item has
\* changes that were not synced (updated_time after sync_time)
DeltaWrites(m, L, id) ==
    IF L[id].exists /\ L[id].updated_time > L[id].sync_time
    THEN [m EXCEPT !.f.lostEdits = @ \cup {id}]
    ELSE m

StepSaveLocal ==
    /\ frame.pc = "saveLocal"
    /\ \E o \in StoreOutcomes :
         /\ Charge(o)
         /\ LET id == CurrentRemote.id
                L == itemSave(localItems, id, frame.content, unixMs,
                              IF itemType[id] = TYPE_RESOURCE THEN FETCH_STATUS_IDLE
                              ELSE localItems[id].fetch_status)
                m == [DeltaWrites(M, localItems, id) EXCEPT !.f.savedLocal = @ \cup {id}]
            IN IF o # "ok" THEN Only(Catch(M, o))
               ELSE IF autoEnable(frame.hasAutoEnabledEncryption, itemType[id],
                                  frame.masterKeysBefore)
               THEN StoreStep([m EXCEPT !.f.hasAutoEnabledEncryption = TRUE,
                                        !.f.autoEnabled = @ + 1,
                                        !.f.pc = "enableEncryption"], L)
               ELSE StoreStep(NextRemote(m, L, itemType), L)
    /\ UNCHANGED <<frozenVars, callerVars>>

\* lines 1261-1262: enableEncryption() and loadMasterKeysFromSettings()
StepEnableEncryption ==
    /\ frame.pc = "enableEncryption"
    /\ \E o \in StoreOutcomes :
         /\ Charge(o)
         /\ Only(IF o # "ok" THEN Catch(M, o)
                 ELSE NextRemote(M, localItems, itemType))
    /\ UNCHANGED <<frozenVars, callerVars>>

\* lines 1267-1276: ItemClass.delete(id, {trackDeleted: false})
StepDeleteLocal ==
    /\ frame.pc = "deleteLocal"
    /\ \E o \in StoreOutcomes :
         /\ Charge(o)
         /\ LET s == itemDelete(localItems, deletedItems, CurrentRemote.id, FALSE)
            IN IF o # "ok" THEN Only(Catch(M, o))
               ELSE Effect(NextRemote(DeltaWrites(M, localItems, CurrentRemote.id),
                                      s.L, itemType),
                           s.L, s.D, remoteFiles)
    /\ UNCHANGED <<frozenVars, callerVars>>

\* lines 1311-1321: Folder.delete() of a folder collected by the page loop
StepFolderDelete ==
    /\ frame.pc = "folderDelete"
    /\ \E o \in StoreOutcomes :
         /\ Charge(o)
         /\ LET s == itemDelete(localItems, deletedItems,
                                frame.localFoldersToDelete[frame.i], FALSE)
                m == [DeltaWrites(M, localItems, frame.localFoldersToDelete[frame.i])
                          EXCEPT !.f.i = @ + 1]
            IN IF o # "ok" THEN Only(Catch(M, o))
               ELSE Effect(IF m.f.i > Len(m.f.localFoldersToDelete)
                           THEN AfterFolders(m) ELSE m,
                           s.L, s.D, remoteFiles)
    /\ UNCHANGED <<frozenVars, callerVars>>

\* lines 1323-1326: BaseItem.deleteOrphanSyncItems()
StepDeleteOrphanSyncItems ==
    /\ frame.pc = "deleteOrphanSyncItems"
    /\ \E o \in StoreOutcomes :
         /\ Charge(o)
         /\ Only(IF o # "ok" THEN Catch(M, o) ELSE AfterTry(M))
    /\ UNCHANGED <<frozenVars, callerVars>>

\* ------------------------------------------------- the end of start()
\* lines 1356-1372: releaseLock() returns
StepReleaseLock ==
    /\ frame.pc = "releaseLock"
    /\ Commit(AfterRelease(M))
    /\ lockHeld' = FALSE
    /\ UNCHANGED <<state_, downloadQueue_, storeVars, targetVars, events,
                   activeRuns, lastEnd, budget, pollers, lastStart, lastCancel>>

\* lines 1370-1382: shareService_.maintenance() returns or throws (caught)
StepMaintenance ==
    /\ frame.pc = "maintenance"
    /\ \E o \in Outcomes({"networkError"}) :
         /\ Charge(o)
         /\ Only(At(logSyncOperation(M, "finished", 1), "logSyncSummary"))
    /\ UNCHANGED <<frozenVars, callerVars>>

\* lines 1382-1397: logSyncSummary() returns; SYNC_COMPLETED; idle; the
\* output context is returned, or errorToThrow thrown
StepLogSyncSummary ==
    /\ frame.pc = "logSyncSummary"
    /\ \E o \in StoreOutcomes :
         /\ Charge(o)
         /\ IF o # "ok" THEN Reject
            ELSE /\ progressReport_' = EmptyReport
                 /\ events' = [events EXCEPT !.completed = @ + 1,
                                             !.isFullSync = isFullSync(frame.syncSteps)]
                 /\ state_' = "idle"
                 /\ frame' = EmptyFrame
                 /\ activeRuns' = activeRuns - 1
                 /\ lastEnd' = Ended(IF frame.errorToThrow # "" THEN "thrown"
                                     ELSE "returned")
                 /\ UNCHANGED <<cancelling_, syncTargetIsLocked_, downloadQueue_,
                                storeVars, targetVars, lockVars, persisted>>
    /\ UNCHANGED <<frozenVars, callerVars>>

\* ------------------------------------------------------------- cancel()
\* a cancel() that never waits
cancelReturnsAlways(flag, st) == TRUE

\* line 607
cancelReturnsAtOnce(flag, st) == flag \/ st = "idle"

\* lines 609-623: the queue is stopped, the flag set, the promise polls
cancelBody ==
    /\ downloadQueue_' = queueStop(downloadQueue_)
    /\ progressReport_' = [progressReport_ EXCEPT !["cancelling"] = @ + 1]
    /\ cancelling_' = TRUE
    /\ pollers' = pollers + 1

\* lines 606-624: a call of cancel()
Cancel ==
    /\ budget > 0
    /\ budget' = budget - 1
    /\ IF cancelReturnsAtOnce(cancelling_, state_)
       THEN /\ UNCHANGED <<downloadQueue_, progressReport_, cancelling_, pollers>>
            /\ lastCancel' = [calledWhile |-> state_, flagAtCall |-> cancelling_,
                              resolvedWhile |-> state_, immediate |-> TRUE,
                              changed |-> <<downloadQueue_', progressReport_', cancelling_'>>
                                          # <<downloadQueue_, progressReport_, cancelling_>>]
       ELSE /\ cancelBody
            /\ UNCHANGED lastCancel
    /\ UNCHANGED <<state_, syncTargetIsLocked_, frame, storeVars, targetVars,
                   lockVars, persisted, events, activeRuns, lastStart, lastEnd>>

\* lines 617-622: the interval of a cancel() promise finds the state idle
CancelResolve ==
    /\ pollers > 0
    /\ state_ = "idle"
    /\ pollers' = pollers - 1
    /\ lastCancel' = [calledWhile |-> "in_progress", flagAtCall |-> FALSE,
                      resolvedWhile |-> state_, immediate |-> FALSE,
                      changed |-> TRUE]
    /\ UNCHANGED <<syncVars, frame, storeVars, targetVars, lockVars, persisted,
                   events, activeRuns, lastStart, lastEnd, budgetVars>>

\* lines 777-781: the auto-refresh of the lock fails, the lock being gone
\* from the target or not; the callback of start() runs
RefreshLockFails ==
    /\ autoRefresh
    /\ budget > 0
    /\ budget' = budget - 1
    /\ syncTargetIsLocked_' = TRUE
    /\ \E gone \in BOOLEAN : lockHeld' = (lockHeld /\ ~gone)
    /\ IF cancelReturnsAtOnce(cancelling_, state_)
       THEN UNCHANGED <<downloadQueue_, progressReport_, cancelling_, pollers>>
       ELSE cancelBody
    /\ UNCHANGED <<state_, frame, storeVars, targetVars, autoRefresh, persisted,
                   events, activeRuns, lastStart, lastEnd, lastCancel>>

\* another client puts an Exclusive lock on the target while the run holds
\* its Sync lock; the File API goes on serving the calls of the run
ExclusiveLockAppears ==
    /\ autoRefresh
    /\ ~exclusiveLock
    /\ budget > 0
    /\ budget' = budget - 1
    /\ exclusiveLock' = TRUE
    /\ UNCHANGED <<syncVars, frame, storeVars, remoteFiles, supportsAccurateTimestamp,
                   targetVersion, appType_, itemSize, other, lockVars, histVars>>

\* Another client runs the same code on the same target. Its note 1 was
\* synced with the target at other.sync_time and edited since.
\* lines 821-883 in that client: stat and get of the note, then the action
OtherClientStat ==
    /\ other.pc = "stat"
    /\ LET action == UploadAction(TYPE_NOTE, other.sync_time,
                          remoteFiles[1].exists, remoteFiles[1].updated_time)
       IN other' = [other EXCEPT
                      !.action = action,
                      !.pc = IF action = "updateRemote" THEN "put" ELSE "done"]
    /\ UNCHANGED <<syncVars, frame, storeVars, remoteFiles, supportsAccurateTimestamp,
                   targetVersion, exclusiveLock, appType_, itemSize, lockVars,
                   histVars, budgetVars>>

\* lines 949-961 in that client: the put of an updateRemote
OtherClientPut ==
    /\ other.pc = "put"
    /\ remoteFiles' = filePut(remoteFiles, 1, other.updated_time)
    /\ other' = [other EXCEPT !.pc = "done"]
    /\ UNCHANGED <<syncVars, frame, storeVars, supportsAccurateTimestamp,
                   targetVersion, exclusiveLock, appType_, itemSize, lockVars,
                   histVars, budgetVars>>

\* ------------------------------------------- a fetch of the Download Queue
\* the job `apiCall('get', path)` of a task ends; the next waiting task is
\* started unless the queue is stopped
QueueTaskDone ==
    /\ \E task \in downloadQueue_.processingTasks_ :
       \E o \in Outcomes({"rejectedByTarget", "networkError"}) :
         /\ task.locked => o = "ok"
         /\ Charge(o)
         /\ LET file == remoteFiles[task.id]
                done == IF task.locked THEN [result |-> 0, error |-> "lockError"]
                        ELSE IF o # "ok" THEN [result |-> 0, error |-> apiCallError(o)]
                        ELSE [result |-> IF file.exists THEN file.updated_time ELSE 0,
                              error |-> ""]
                old == downloadQueue_.results_
                q == [downloadQueue_ EXCEPT
                         !.processingTasks_ = @ \ {task},
                         !.results_ = [k \in DOMAIN old \cup {task.id} |->
                                           IF k = task.id THEN done ELSE old[k]]]
            IN downloadQueue_' = processQueue_(q, syncTargetIsLocked_, state_)
    /\ UNCHANGED <<state_, cancelling_, syncTargetIsLocked_, progressReport_, frame,
                   storeVars, targetVars, lockVars, histVars>>

\* the user deletes a note between two runs: Note.delete(id) leaves a Deleted
\* Item for the target
LocalDelete ==
    /\ budget > 0
    /\ budget' = budget - 1
    /\ state_ = "idle"
    /\ \E id \in Ids :
         /\ itemType[id] = TYPE_NOTE
         /\ localItems[id].exists
         /\ localItems' = itemDelete(localItems, deletedItems, id, TRUE).L
         /\ deletedItems' = itemDelete(localItems, deletedItems, id, TRUE).D
    /\ lastEnd' = [lastEnd EXCEPT !.clean = FALSE]
    /\ UNCHANGED <<syncVars, frame, conflictNotes, targetVars, lockVars, persisted,
                   events, activeRuns, frozenVars, callerVars>>

\* ------------------------------------------------------ the initial states
Local(updatedTime, syncTime) ==
    [exists |-> TRUE, updated_time |-> updatedTime, sync_time |-> syncTime,
     sync_disabled |-> FALSE, fetch_status |-> FETCH_STATUS_DONE]

File(exists, updatedTime, seq) ==
    [exists |-> exists, updated_time |-> updatedTime, seq |-> seq]

\* what an item is, locally and on the target, before the first run
ItemCase(name, id) ==
    CASE name = "absent" ->
           [local |-> NoItem, deleted |-> FALSE, file |-> NoFile]
      [] name = "newLocal" ->
           [local |-> Local(1, 0), deleted |-> FALSE, file |-> NoFile]
      [] name = "modified" ->
           [local |-> Local(2, 1), deleted |-> FALSE, file |-> File(TRUE, 1, id)]
      [] name = "modifiedNoBlob" ->
           [local |-> [Local(2, 1) EXCEPT !.fetch_status = FETCH_STATUS_IDLE],
            deleted |-> FALSE, file |-> File(TRUE, 1, id)]
      [] name = "bothChanged" ->
           [local |-> Local(2, 1), deleted |-> FALSE, file |-> File(TRUE, 3, id)]
      [] name = "remoteGone" ->
           [local |-> Local(2, 1), deleted |-> FALSE, file |-> File(FALSE, 0, id)]
      [] name = "remoteNew" ->
           [local |-> NoItem, deleted |-> FALSE, file |-> File(TRUE, 1, id)]
      [] name = "remoteAhead" ->
           [local |-> NoItem, deleted |-> FALSE, file |-> File(TRUE, 9, id)]
      [] name = "remoteUpdated" ->
           [local |-> Local(1, 1), deleted |-> FALSE, file |-> File(TRUE, 2, id)]
      [] name = "remoteDeleted" ->
           [local |-> Local(1, 1), deleted |-> FALSE, file |-> File(FALSE, 0, id)]
      [] name = "localDeleted" ->
           [local |-> NoItem, deleted |-> TRUE, file |-> File(TRUE, 1, id)]
      [] OTHER ->
           [local |-> NoItem, deleted |-> FALSE, file |-> File(FALSE, 0, id)]

\* the items before the first run: the type and the case of item 1 and of
\* the items after it, and whether the target has accurate timestamps
World(type1, case1, type2, case2, accurate) ==
    [types |-> [id \in Ids |-> IF id = 1 THEN type1 ELSE type2],
     cases |-> [id \in Ids |-> IF id = 1 THEN case1 ELSE case2],
     accurate |-> accurate,
     appType |-> "desktop",
     sizes |-> [id \in Ids |-> 1]]

\* the world w with an item 1 of 100 MB, for the application appType
LargeItemWorld(w, appType) ==
    [w EXCEPT !.appType = appType, !.sizes[1] = MobileMaxResourceSize]

Worlds ==
    {World(TYPE_NOTE, "newLocal", TYPE_RESOURCE, "newLocal", TRUE),
     World(TYPE_NOTE, "bothChanged", TYPE_FOLDER, "bothChanged", TRUE),
     World(TYPE_RESOURCE, "remoteGone", TYPE_RESOURCE, "localDeleted", TRUE),
     World(TYPE_NOTE, "tombstone", TYPE_NOTE, "remoteNew", TRUE),
     World(TYPE_NOTE, "tombstone", TYPE_NOTE, "remoteNew", FALSE),
     World(TYPE_FOLDER, "remoteDeleted", TYPE_NOTE, "remoteDeleted", TRUE),
     World(TYPE_RESOURCE, "modified", TYPE_NOTE, "remoteUpdated", TRUE),
     World(TYPE_RESOURCE, "modified", TYPE_NOTE, "remoteUpdated", FALSE),
     World(TYPE_RESOURCE, "modifiedNoBlob", TYPE_NOTE, "newLocal", TRUE),
     World(TYPE_NOTE, "tombstone", TYPE_NOTE, "remoteAhead", TRUE),
     LargeItemWorld(World(TYPE_RESOURCE, "remoteNew", TYPE_NOTE, "remoteNew", TRUE),
                    "mobile"),
     LargeItemWorld(World(TYPE_RESOURCE, "remoteNew", TYPE_NOTE, "remoteNew", TRUE),
                    "desktop"),
     World(TYPE_NOTE, "remoteGone", TYPE_NOTE, "localDeleted", TRUE),
     World(TYPE_MASTER_KEY, "remoteNew", TYPE_MASTER_KEY, "remoteNew", TRUE),
     World(TYPE_MASTER_KEY, "remoteUpdated", TYPE_MASTER_KEY, "remoteNew", TRUE),
     World(NOT_AN_ITEM, "remoteNew", TYPE_NOTE, "remoteNew", TRUE),
     World(TYPE_NOTE, "modified", TYPE_NOTE, "absent", TRUE)}

NoEnd ==
    [how |-> "none", clean |-> FALSE, delta |-> NoCtx, syncLock |-> FALSE, lockHeld |-> FALSE,
     autoRefresh |-> FALSE, saved |-> FALSE, hasCancelled |-> FALSE,
     lastDone |-> NoCtx, uploaded |-> {}, toDelete |-> {}, prevUploaded |-> {},
     caught |-> "", caughtAt |-> "none", throwOnError |-> FALSE, syncSteps |-> {}, cancelled |-> FALSE,
     isFullSync |-> FALSE, state |-> "idle", started |-> 0,
     completed |-> 0,
     stale |-> {}, staleSynced |-> {}]

Init ==
    /\ \E w \in Worlds :
         /\ itemType = w.types
         /\ localItems = [id \in Ids |-> ItemCase(w.cases[id], id).local]
         /\ deletedItems = {id \in Ids : ItemCase(w.cases[id], id).deleted}
         /\ remoteFiles = [id \in Ids |-> ItemCase(w.cases[id], id).file]
         /\ supportsAccurateTimestamp = w.accurate
         /\ appType_ = w.appType
         /\ itemSize = w.sizes
         /\ other = IF w.types[1] = TYPE_NOTE /\ w.cases[1] = "modified"
                    THEN [pc |-> "stat", action |-> "", sync_time |-> 1,
                          updated_time |-> 3]
                    ELSE [pc |-> "absent", action |-> "", sync_time |-> 0,
                          updated_time |-> 0]
    /\ conflictNotes = 0
    /\ targetVersion = IF \A id \in Ids : remoteFiles[id] = NoFile THEN 0 ELSE 1
    /\ state_ = "idle"
    /\ cancelling_ = FALSE
    /\ syncTargetIsLocked_ = FALSE
    /\ downloadQueue_ = NoQueue
    /\ progressReport_ = EmptyReport
    /\ frame = EmptyFrame
    /\ lockHeld = FALSE
    /\ exclusiveLock = FALSE
    /\ autoRefresh = FALSE
    /\ persisted = NoCtx
    /\ events = [started |-> 0, completed |-> 0, isFullSync |-> FALSE]
    /\ pollers = 0
    /\ activeRuns = 0
    /\ lastStart = [state |-> "idle", result |-> "none"]
    /\ lastEnd = NoEnd
    /\ lastCancel = [calledWhile |-> "none", flagAtCall |-> FALSE,
                     resolvedWhile |-> "none", immediate |-> FALSE,
                     changed |-> FALSE]
    /\ budget = MaxEvents

\* a step of the call of start()
RunNext ==
    \/ StepMasterKeyCount \/ StepIndexNoteResources \/ StepUpdateAllShareIds
    \/ StepInitialize \/ StepCheckCanSync \/ StepUpgrade \/ StepAcquireLock
    \/ StepItemsThatNeedSync \/ StepPreUploadItems \/ StepStat \/ StepGet
    \/ StepLocalState \/ StepPutBlob \/ StepSerializeAndUploadItem
    \/ StepSaveSyncTime \/ StepItemConflict \/ StepCreateConflictNote
    \/ StepCreateConflictResourceNote \/ StepConflictResolve
    \/ StepDeletedItems \/ StepDeleteRemote \/ StepDeleteRemoteBlob
    \/ StepRemoteDeletedItem \/ StepNewDownloadQueue \/ StepDelta
    \/ StepLoadItemsByIds \/ StepLoadContent \/ StepSaveLocal \/ StepEnableEncryption
    \/ StepDeleteLocal
    \/ StepFolderDelete \/ StepDeleteOrphanSyncItems \/ StepReleaseLock
    \/ StepMaintenance \/ StepLogSyncSummary

Next ==
    \/ Start \/ StartRejected \/ RunNext
    \/ Cancel \/ CancelResolve \/ RefreshLockFails \/ QueueTaskDone
    \/ LocalDelete \/ ExclusiveLockAppears

Spec == Init /\ [][Next]_vars

\* the runs of this client interleaved with the upload of another client
TwoClientsNext ==
    \/ Next
    \/ OtherClientStat
    \/ OtherClientPut

TwoClients == Init /\ [][TwoClientsNext]_vars

\* =============================================================== properties

\* C1: at most one run is in progress; start() while in_progress fails with
\* alreadyStarted and starts no second run; start() while idle sets the state
\* to in_progress
OneRunAtATime ==
    /\ activeRuns <= 1
    /\ activeRuns = 1 => state_ = "in_progress"
    /\ lastStart.result = "alreadyStarted" => lastStart.state = "in_progress"
    /\ lastStart.result = "started" => lastStart.state = "idle"

StartRefusedDuringRun ==
    lastStart.result = "alreadyStarted" /\ activeRuns = 1 /\ frame.pc = "delta"

\* C2: every call of start() that set the state to in_progress sets it back to
\* idle, whatever the outcome: when no call of start() is running, the state
\* is idle
EndedRunIsIdle == activeRuns = 0 => state_ = "idle"

CancelledRunProceeds ==
    (state_ = "in_progress" /\ cancelling_ /\ activeRuns = 1)
        => ENABLED (RunNext \/ QueueTaskDone)

\* C5 as stated: every cancel() called during a run resolves only when the
\* state is idle
CancelResolvesAtIdle ==
    lastCancel.calledWhile = "in_progress" => lastCancel.resolvedWhile = "idle"

\* C5: a cancel() called during a run with the cancelling flag not set resolves
\* only when the state is idle; called with the flag set, or while idle, it
\* returns at once and changes nothing
CancelResolvesAtIdleUnlessFlagged ==
    /\ (lastCancel.calledWhile = "in_progress" /\ ~lastCancel.flagAtCall)
           => (lastCancel.resolvedWhile = "idle" /\ ~lastCancel.immediate)
    /\ (lastCancel.flagAtCall \/ lastCancel.calledWhile = "idle")
           => (lastCancel.immediate /\ ~lastCancel.changed)

CancelResolved ==
    /\ lastCancel.calledWhile = "in_progress"
    /\ ~lastCancel.flagAtCall
    /\ lastCancel.resolvedWhile = "idle"
    /\ lastEnd.how = "returned"

\* C6: whenever the state is idle after a run has ended, the cancelling flag
\* is false
CancellingClearedAtIdle ==
    (state_ = "idle" /\ lastEnd.how \in {"returned", "thrown"}) => ~cancelling_

\* C7: saveContextHandler is only called with the delta context of a page all
\* of whose remotes were processed, and only such a context becomes the next
\* continuation or the new delta context of the run
SavedContextIsOfWholePage ==
    /\ frame.saved => persisted \in frame.donePages
    /\ frame.context \in frame.donePages \cup {frame.lastDelta, NoCtx}
    /\ frame.newDeltaContext \in frame.donePages \cup {NoCtx}

CancelledAfterSavedPage ==
    frame.hasCancelled /\ frame.saved /\ frame.processed < Len(frame.remotes)

\* C8: a run cancelled during DELTA after a page was processed whole returns
\* as its delta the continuation of the last page processed whole
CancelledDeltaReturnsLastPage ==
    (lastEnd.how = "returned" /\ lastEnd.hasCancelled /\ lastEnd.lastDone # NoCtx)
        => lastEnd.delta = lastEnd.lastDone

\* C9: the phases run in the order UPLOAD, DELETE_REMOTE, DELTA: every call of
\* UPLOAD is issued before UPLOAD has finished, every remote delete after
\* UPLOAD and before DELETE_REMOTE has finished, every delta call after both
PhasesInOrder ==
    \A c \in frame.calls :
        /\ c.fn \in {"stat", "get", "put"} => c.after = {}
        /\ c.fn = "delete" => c.after = {"update_remote"}
        /\ c.fn = "delta" => c.after = {"update_remote", "delete_remote"}

AllPhasesCalled ==
    {"stat", "delete", "delta"} \subseteq {c.fn : c \in frame.calls}

UploadItemSteps ==
    {"stat", "get", "localState", "putBlob", "serializeAndUploadItem",
     "saveSyncTime", "itemConflict", "createConflictNote",
     "createConflictResourceNote", "conflictResolve"}

\* C11: within one UPLOAD phase no path is in the done-paths list twice, and
\* no call is made for an item whose path is already in the list
NoPathDoneTwice ==
    /\ \A j, k \in 1..Len(frame.donePaths) :
           j # k => frame.donePaths[j] # frame.donePaths[k]
    /\ frame.pc \in UploadItemSteps => CurrentLocal \notin SeqRange(frame.donePaths)

ProcessingPathTwiceRaised ==
    /\ frame.errorToThrow = "processingPathTwice"
    /\ Len(frame.donePaths) > 0
    /\ frame.calls # {}

\* C12: the blob and the metadata of a Resource are put only if its
\* fetch_status is DONE; a Resource without its blob is marked sync-disabled,
\* nothing is uploaded for it and its sync_time stays what it was
ResourcePutOnlyWithBlob ==
    /\ (frame.pc \in {"putBlob", "serializeAndUploadItem", "saveSyncTime"}
            /\ itemType[CurrentLocal] = TYPE_RESOURCE)
           => localItems[CurrentLocal].fetch_status = FETCH_STATUS_DONE
    /\ \A id \in frame.uploaded :
           itemType[id] = TYPE_RESOURCE => localItems[id].fetch_status = FETCH_STATUS_DONE
    /\ \A r \in frame.noBlob :
           /\ localItems[r.id].sync_disabled
           /\ r.id \notin frame.uploaded
           /\ localItems[r.id].sync_time = r.sync_time

ResourceWithoutBlobSkipped ==
    /\ frame.noBlob # {}
    /\ frame.uploaded # {}
    /\ frame.pc = "delta"

\* the awaits of the page loop of DELTA
PageLoopSteps == {"delta", "loadItemsByIds", "loadContent", "saveLocal", "deleteLocal"}

\* C13: DELTA deletes no local Folder until every remote of every page of the
\* run has been processed: inside the page loop no Folder is deleted, and the
\* collected folders are deleted only when the last page has been processed whole
FoldersDeletedLast ==
    /\ frame.pc = "deleteLocal" => itemType[CurrentRemote.id] # TYPE_FOLDER
    /\ frame.pc \in PageLoopSteps =>
           \A k \in 1..Len(frame.localFoldersToDelete) :
               localItems[frame.localFoldersToDelete[k]].exists
    /\ frame.pc = "folderDelete" =>
           /\ ~frame.listHasMore
           /\ ~frame.hasCancelled
           /\ frame.processed = Len(frame.remotes)

FolderWaitsForPage ==
    /\ frame.pc = "deleteLocal"
    /\ Len(frame.localFoldersToDelete) > 0

\* the counters of the writes of a run and of its conflicts
WriteCounters ==
    {"createLocal", "updateLocal", "deleteLocal", "createRemote", "updateRemote",
     "deleteRemote", "noteConflict", "resourceConflict", "itemConflict"}

\* C14: a run started after a full sync that ended without error or
\* cancellation, nothing having changed in between, writes nothing: its
\* counters of creations, updates, deletions and conflicts stay zero
SecondRunWritesNothing ==
    frame.afterClean => \A k \in WriteCounters : progressReport_[k] = 0

\* C15: when a full sync has ended without error, every item that had a
\* Deleted Item at its start, so a note created locally, uploaded by the run
\* before and deleted locally since, has no file on the target and no
\* Deleted Item any more
DeletedNoteLeavesTarget ==
    lastEnd.clean =>
        \A id \in lastEnd.toDelete : ~remoteFiles[id].exists /\ id \notin deletedItems

CreatedSyncedDeletedSynced ==
    /\ lastEnd.clean
    /\ \E id \in lastEnd.toDelete \cap lastEnd.prevUploaded :
         /\ itemType[id] = TYPE_NOTE
         /\ ~remoteFiles[id].exists
         /\ remoteFiles[id] # NoFile

\* C16: an error raised during the phases is thrown by start() only with
\* throwOnError and only after the cleanup (lock released and its refresh
\* stopped, SYNC_COMPLETED dispatched, state idle); without throwOnError it is
\* never kept for the throw, and the run that caught it returns its context
ErrorThrownOnlyAfterCleanup ==
    /\ frame.errorToThrow # "" => frame.throwOnError /\ frame.errorToThrow = frame.caught
    /\ (frame.caught # "" /\ ~frame.throwOnError) => frame.errorToThrow = ""
    /\ lastEnd.how = "thrown" =>
         /\ lastEnd.throwOnError /\ lastEnd.caught # ""
         /\ ~lastEnd.lockHeld /\ ~lastEnd.autoRefresh
         /\ lastEnd.completed = lastEnd.started
         /\ lastEnd.state = "idle"
    /\ (lastEnd.how = "returned" /\ lastEnd.caught # "") => ~lastEnd.throwOnError

PhaseErrorThrown ==
    /\ lastEnd.how = "thrown" /\ lastEnd.caught = "networkError"
    /\ lastEnd.syncLock /\ lastEnd.state = "idle"

\* C17: every run that dispatched SYNC_STARTED dispatches SYNC_COMPLETED once
\* afterwards: when no call of start() is pending, as many SYNC_COMPLETED as
\* SYNC_STARTED have been dispatched, and never more
StartedRunCompletes ==
    /\ events.completed <= events.started
    /\ activeRuns = 0 => events.completed = events.started

\* C18: a run that dispatched SYNC_COMPLETED with isFullSync = true was asked
\* for the three phases and ran them with no error caught on the way; a run
\* asked for the three phases that met no error and no cancellation
\* dispatched isFullSync = true
FullSyncMeansAllPhasesRan ==
    lastEnd.how \in {"thrown", "returned"} =>
        /\ lastEnd.isFullSync => (AllSteps \subseteq lastEnd.syncSteps /\ lastEnd.caught = "")
        /\ (AllSteps \subseteq lastEnd.syncSteps /\ lastEnd.caught = "" /\ ~lastEnd.cancelled)
               => lastEnd.isFullSync

\* the calls made for one item of an UPLOAD batch
UploadItemCalls == {"stat", "get", "putBlob", "serializeAndUploadItem"}

\* C19: a request-timeout raised by a call for one item during UPLOAD (stat,
\* get, the put of the blob, the upload of the metadata) never reaches the
\* catch block of the run: the run is not aborted by it
RequestTimeoutKeepsRun ==
    ~(frame.caught = "request-timeout" /\ frame.caughtAt \in UploadItemCalls)

\* C20: once an Exclusive lock is on the target, no put and no delete of the
\* run succeeds on the target any more
NoWriteUnderExclusiveLock == ~frame.wroteUnderLock

\* C21: on mobile a remote Resource of the size limit or more is not saved by
\* DELTA and gets no local-state row: the local item stays what it was but
\* for the sync-disabled mark, SYNC_HAS_DISABLED_SYNC_ITEMS is dispatched,
\* and the page loop goes on to the remotes after it
LargeResourceNotSaved ==
    /\ (frame.pc = "saveLocal" /\ itemType[CurrentRemote.id] = TYPE_RESOURCE
            /\ appType_ = "mobile")
           => itemSize[CurrentRemote.id] < MobileMaxResourceSize
    /\ \A r \in frame.tooLarge :
           /\ appType_ = "mobile"
           /\ localItems[r.id] = [r.before EXCEPT !.sync_disabled = TRUE]
           /\ r.id \in frame.disabledDispatched
    /\ (frame.tooLarge # {} /\ frame.pc = "deleteOrphanSyncItems")
           => frame.processed = Len(frame.remotes)

LargeResourceSkippedOnMobile ==
    /\ frame.tooLarge # {}
    /\ frame.pc = "deleteOrphanSyncItems"
    /\ \E id \in Ids : itemType[id] = TYPE_NOTE /\ localItems[id].exists

\* the note conflicts of the run resolved so far
NotesResolved == {r \in frame.resolved : itemType[r.id] = TYPE_NOTE}

\* the note conflict being handled, if any
NoteConflictPending ==
    IF frame.pc \in {"createConflictNote", "conflictResolve"}
       /\ frame.action = "noteConflict"
    THEN 1 ELSE 0

\* C22 as stated: a note edited on both sides, duplicated into Conflicts and
\* overwritten with the remote, is counted as noteConflict 1 and createLocal 1
NoteConflictCountsDuplicate ==
    (\E r \in NotesResolved : r.remote /\ r.duplicated)
        => (progressReport_["noteConflict"] = 1 /\ progressReport_["createLocal"] = 1)

\* C22: every note conflict of UPLOAD is counted once as noteConflict; the
\* duplicate put into Conflicts is not counted: createLocal is counted by
\* DELTA only, and not for a note whose conflict the run resolved
NoteConflictCountedOnce ==
    frame.pc # "none" =>
      /\ frame.caught = ""
             => progressReport_["noteConflict"]
                    = Cardinality(NotesResolved) + NoteConflictPending
      /\ progressReport_["createLocal"] > 0 => \E c \in frame.calls : c.fn = "delta"
      /\ \A r \in NotesResolved :
             (r.remote /\ r.duplicated) => (conflictNotes > 0 /\ localItems[r.id].exists)
      /\ (NotesResolved # {}
              /\ \A id \in Ids : itemType[id] = TYPE_NOTE
                                    => id \in {r.id : r \in NotesResolved})
             => progressReport_["createLocal"] = 0

NoteConflictResolvedWithRemote ==
    /\ \E r \in NotesResolved : r.remote /\ r.duplicated
    /\ progressReport_["noteConflict"] = 1
    /\ progressReport_["createLocal"] = 0
    /\ conflictNotes = 1
    /\ frame.pc = "logSyncSummary"

\* C23 as stated: a synced note with local changes whose remote is gone is
\* duplicated into Conflicts, deleted locally, and counted as noteConflict 1
\* and deleteLocal 1
GoneNoteCountsDeleteLocal ==
    (\E r \in NotesResolved : ~r.remote)
        => (progressReport_["noteConflict"] = 1 /\ progressReport_["deleteLocal"] = 1)

\* C23: such a note is duplicated into Conflicts and then deleted locally, and
\* stays deleted for the rest of the run; the run counts its noteConflict, and
\* no deleteLocal for it: deleteLocal is counted by DELTA only, for a remote
\* that is deleted while a local item exists
GoneNoteDuplicatedAndDeleted ==
    frame.pc # "none" =>
      /\ \A r \in NotesResolved :
             ~r.remote => /\ r.duplicated
                          /\ conflictNotes > 0
                          /\ ~localItems[r.id].exists
                          /\ progressReport_["noteConflict"] > 0
      /\ progressReport_["deleteLocal"] > 0 => \E c \in frame.calls : c.fn = "delta"
      /\ progressReport_["deleteLocal"] = Cardinality(frame.loggedDelete)
      /\ \A r \in NotesResolved : ~r.remote => r.id \notin frame.loggedDelete

GoneNoteResolved ==
    /\ \E r \in NotesResolved : ~r.remote /\ r.duplicated
    /\ progressReport_["noteConflict"] = 1
    /\ progressReport_["deleteLocal"] = 0
    /\ conflictNotes = 1
    /\ frame.pc = "logSyncSummary"

\* C24: a run enables encryption at most once, and only if there was no
\* local master key when it started and DELTA has saved a Master Key; a run
\* started with a local master key never enables it
EncryptionAutoEnabledOnce ==
    /\ frame.autoEnabled <= 1
    /\ frame.autoEnabled > 0 =>
         /\ frame.keysAtStart = 0
         /\ \E id \in frame.savedLocal : itemType[id] = TYPE_MASTER_KEY
    /\ frame.pc = "enableEncryption" => frame.autoEnabled = 1

TwoMasterKeysOneEnabling ==
    /\ frame.autoEnabled = 1
    /\ Cardinality({id \in frame.savedLocal : itemType[id] = TYPE_MASTER_KEY}) = 2

\* the steps of UPLOAD between the decision for an item and the first change
\* of its sync_time
DecidedSteps ==
    {"localState", "putBlob", "serializeAndUploadItem", "saveSyncTime", "itemConflict",
     "createConflictNote", "createConflictResourceNote", "conflictResolve"}

\* the conflict of an item, by its type
ConflictOf(id) ==
    CASE itemType[id] = TYPE_NOTE -> "noteConflict"
      [] itemType[id] = TYPE_RESOURCE -> "resourceConflict"
      [] OTHER -> "itemConflict"

\* C25: the action of UPLOAD for a local item follows from the remote found:
\* none and sync_time 0, createRemote; none and sync_time > 0, the conflict of
\* the type; one whose content is later than sync_time, the conflict of the
\* type; else updateRemote. A never-synced item is not stat'ed and gets
\* createRemote
UploadActionFollowsRemote ==
    /\ \A r \in frame.statted : r.sync_time > 0
    /\ frame.pc \in DecidedSteps =>
         LET id == CurrentLocal
             syncTime == localItems[id].sync_time
         IN /\ (~frame.remote /\ syncTime = 0) => frame.action = "createRemote"
            /\ (~frame.remote /\ syncTime > 0) => frame.action = ConflictOf(id)
            /\ (frame.remote /\ frame.remoteContent > syncTime)
                   => frame.action = ConflictOf(id)
            /\ (frame.remote /\ frame.remoteContent <= syncTime)
                   => frame.action = "updateRemote"
            /\ (\A r \in frame.statted : r.id # id) => frame.action = "createRemote"

ConflictDecidedAfterGet ==
    /\ frame.pc = "conflictResolve"
    /\ frame.action = "noteConflict"
    /\ frame.remote
    /\ \E r \in frame.statted : r.id = CurrentLocal

\* C26: in DELTA a remote with a system path is saved as createLocal only if
\* it has no local item and is not deleted, saved as updateLocal only if it has
\* one, is not deleted and its content is later than the local item, deleted
\* locally only if it has one and is deleted; a remote left without action is
\* none of these, or has no system path; what is not an item is never local
DeltaActionFollowsRemote ==
    /\ frame.pc = "saveLocal" =>
         LET local == localItems[CurrentRemote.id]
         IN /\ itemType[CurrentRemote.id] # NOT_AN_ITEM
            /\ ~CurrentRemote.isDeleted
            /\ frame.action = "createLocal" <=> ~local.exists
            /\ frame.action = "updateLocal"
                   <=> (local.exists /\ frame.content > local.updated_time)
    /\ frame.pc = "deleteLocal" =>
         /\ localItems[CurrentRemote.id].exists
         /\ CurrentRemote.isDeleted
         /\ frame.action = "deleteLocal"
    /\ \A r \in frame.noAction :
         \/ ~r.system
         \/ ~r.exists /\ r.isDeleted
         \/ r.exists /\ ~r.isDeleted /\ r.content <= r.updated_time
    /\ \A id \in Ids : itemType[id] = NOT_AN_ITEM => localItems[id] = NoItem

EqualRemoteLeftAlone ==
    /\ \E r \in frame.noAction :
           r.system /\ r.exists /\ ~r.isDeleted /\ r.content = r.updated_time
    /\ ~supportsAccurateTimestamp
    /\ frame.pc = "deleteOrphanSyncItems"

\* C27: when this client and another have both edited note 1 since their last
\* sync and both have processed it in UPLOAD, at least one of the two runs has
\* classified the note as a conflict
TwoEditsOneConflict ==
    (/\ other.pc = "done"
     /\ 1 \in frame.uploaded \cup {r.id : r \in frame.resolved})
    => \/ other.action = "noteConflict"
       \/ 1 \in {r.id : r \in frame.resolved}

\* C28: once cancel() has set the flag, the run issues no File API call
NoApiCallAfterCancel == frame.issuedCancelling = {}

\* C29: while syncTargetIsLocked_ is set the run is in progress and being
\* cancelled, and no call has been handed to the File API with the flag set
LockFailureStopsApiCalls ==
    /\ frame.issuedLocked = {}
    /\ syncTargetIsLocked_ => cancelling_ /\ state_ = "in_progress"

ApiCallRefusedAfterRefreshFailure ==
    /\ syncTargetIsLocked_
    /\ lockHeld
    /\ ~exclusiveLock
    /\ frame.caught = "lockError"
    /\ frame.caughtAt \in {"stat", "get", "delta"}

RejectedItemSyncDisabled ==
    \A r \in frame.rejected : localItems[r.id].sync_disabled

\* C32: a Deleted Item entry that the run has consumed had its item path
\* deleted successfully before, and its blob path too when it is a Resource;
\* the entry the run is working on is still in the queue
DeletedEntryConsumedAfterDelete ==
    frame.pc # "none" =>
      /\ \A id \in frame.toDelete \ deletedItems :
           /\ [id |-> id, path |-> "item"] \in frame.deleteReturned
           /\ itemType[id] = TYPE_RESOURCE =>
                  [id |-> id, path |-> "blob"] \in frame.deleteReturned
      /\ frame.pc \in {"deleteRemote", "deleteRemoteBlob", "remoteDeletedItem"} =>
             CurrentDeleted \in deletedItems

FailedDeleteRetriedByNextRun ==
    /\ frame.pc # "none"
    /\ lastEnd.caught = "networkError"
    /\ lastEnd.caughtAt = "deleteRemoteBlob"
    /\ lastEnd.toDelete = frame.toDelete
    /\ \E id \in frame.toDelete : itemType[id] = TYPE_RESOURCE /\ id \notin deletedItems

\* C33: a run whose checkCanSync raised outdatedSyncTarget has set
\* sync.upgradeState to SHOULD_DO, holds no Sync lock, has entered no phase and
\* issued no File API call; when it ends through its cleanup the state is idle
OutdatedTargetAbortsRun ==
    /\ frame.caught = "outdatedSyncTarget" =>
         /\ frame.caughtAt = "checkCanSync"
         /\ frame.setUpgradeState
         /\ ~frame.syncLock
         /\ ~lockHeld
         /\ frame.calls = {}
         /\ frame.phasesDone = {}
         /\ frame.pc \in {"maintenance", "logSyncSummary"}
    /\ (lastEnd.caught = "outdatedSyncTarget" /\ lastEnd.how \in {"returned", "thrown"})
         => lastEnd.state = "idle" /\ ~lastEnd.syncLock /\ ~lastEnd.lockHeld

OutdatedTargetRunEnded ==
    /\ lastEnd.caught = "outdatedSyncTarget"
    /\ lastEnd.how = "returned"
    /\ state_ = "idle"
    /\ frame.pc = "none"

\* C34: a note conflict whose differences are material, or whose remote is
\* gone, has its copy in the Conflicts folder when the local note is about to
\* be overwritten or deleted, and every such conflict resolved has one
ConflictCopyBeforeOverwrite ==
    /\ (/\ frame.pc = "conflictResolve"
        /\ frame.action = "noteConflict"
        /\ frame.mustHandleConflict \/ ~frame.remote)
         => /\ CurrentLocal \in frame.duplicatedIds
            /\ conflictNotes > 0
            /\ localItems[CurrentLocal].exists
    /\ \A r \in NotesResolved : (r.differs \/ ~r.remote) => r.duplicated

GoneNoteCopiedNotYetDeleted ==
    /\ frame.pc = "conflictResolve"
    /\ frame.action = "noteConflict"
    /\ ~frame.remote
    /\ CurrentLocal \in frame.duplicatedIds
    /\ localItems[CurrentLocal].exists

\* the items the run has deleted locally by itself: deleteLocal of DELTA, and
\* the conflicts of UPLOAD whose remote was gone
DeletedBySync ==
    frame.loggedDelete \cup {r.id : r \in {q \in frame.resolved : ~q.remote}}

\* C35: an item the run has deleted locally by itself, and that was not in
\* the Deleted Items queue when the run started, is not in the queue, and the
\* run has issued no delete() for its path
SyncDeletionNotQueued ==
    frame.pc # "none" =>
      \A id \in DeletedBySync \ frame.toDelete :
          /\ id \notin deletedItems
          /\ [id |-> id, path |-> "item"] \notin frame.deleteReturned

\* C36: when the run has left its try block, every Folder whose remote
\* deletion was listed by a page whose context was handed to
\* saveContextHandler is deleted locally
PersistedPageFoldersDeleted ==
    frame.pc \in {"releaseLock", "maintenance", "logSyncSummary"} =>
        \A id \in frame.persistedFolders : ~localItems[id].exists

\* C37: with no remote dated after the clock of the run (and no local edit
\* during a run, which this model never makes), UPLOAD never raises
\* processingPathTwice
UploadNeverSeesPathTwice ==
    (\A id \in Ids : remoteFiles[id].updated_time <= unixMs)
        => frame.caught # "processingPathTwice"

\* C38: DELTA has not written over, nor deleted, a local item whose
\* updated_time was after its sync_time
DeltaKeepsUnsyncedItems == frame.lostEdits = {}

\* C39: no job of the Download Queue starts its get() while the Synchronizer
\* is idle, that is, after the run that pushed it has ended
NoGetAfterRunEnded ==
    \A task \in downloadQueue_.processingTasks_ : task.startedWhile # "idle"
====
